---- MODULE Spec2Model ----
(***************************************************************************)
(* Model of insights.py: a one-shot inventory and metrics collector for an *)
(* Azure subscription.  Strings the program splits, lower-cases or         *)
(* searches are sequences of one-character strings, so that split('/'),    *)
(* lower(), capitalize() and the `in` substring test are computed rather   *)
(* than assumed.  Strings the program only compares for equality are       *)
(* ordinary strings.                                                       *)
(***************************************************************************)
EXTENDS Integers, Sequences, FiniteSets, TLC

VARIABLES
    pc,               \* position of main(), or of the function under call
    exit_code,        \* process exit code; -1 while the run is in progress
    upstream,         \* what the Azure management API answers during this run
    token_calls,      \* number of get_token() invocations so far
    listing,          \* per resource kind: outcome of its listing call
    listed,           \* per resource kind: the sequence its listing returned
    queue,            \* descriptors the current for-loop still has to visit
    metrics_results,  \* main(): list of storage-account records
    vm_metrics,       \* get_vm_metrics(): the VM aggregate
    network_metrics,  \* get_network_resources(): per type [count, items]
    net_todo,         \* network resource types the loop has not visited yet
    call              \* the function call under study: arguments and result

vars == <<pc, exit_code, upstream, token_calls, listing, listed, queue,
          metrics_results, vm_metrics, network_metrics, net_todo, call>>

-----------------------------------------------------------------------------
(* Bounds of the model *)

\* longest statuses / extensions / associations list in a detail response
MaxDetail == 2
\* most data points in one time series
MaxPoints == 2
\* most metric entries in one metrics response
MaxEntries == 1
\* most process_vm calls in one sequence of calls
MaxCalls == 3
\* most resources in one upstream inventory
MaxList == 2
\* number of network resource types the run iterates over
MaxNetTypes == 2

-----------------------------------------------------------------------------
(* Character strings *)

UpperAlpha == <<"A", "B", "C", "D", "E", "F", "G", "H", "I", "J", "K", "L", "M",
                "N", "O", "P", "Q", "R", "S", "T", "U", "V", "W", "X", "Y", "Z">>
LowerAlpha == <<"a", "b", "c", "d", "e", "f", "g", "h", "i", "j", "k", "l", "m",
                "n", "o", "p", "q", "r", "s", "t", "u", "v", "w", "x", "y", "z">>

\* the lower-case letter of each upper-case letter, and conversely
ToLower ==
    [c \in {UpperAlpha[i] : i \in 1..Len(UpperAlpha)} |->
        LowerAlpha[CHOOSE i \in 1..Len(UpperAlpha) : UpperAlpha[i] = c]]
ToUpper ==
    [c \in {LowerAlpha[i] : i \in 1..Len(LowerAlpha)} |->
        UpperAlpha[CHOOSE i \in 1..Len(LowerAlpha) : LowerAlpha[i] = c]]

\* characters other than letters are left as they are
LowerChar(c) == IF c \in DOMAIN ToLower THEN ToLower[c] ELSE c
UpperChar(c) == IF c \in DOMAIN ToUpper THEN ToUpper[c] ELSE c

RECURSIVE Lower(_)
\* str.lower()
Lower(s) == IF s = <<>> THEN <<>> ELSE <<LowerChar(Head(s))>> \o Lower(Tail(s))

\* str.capitalize(): first character upper-cased, the rest lower-cased
Capitalize(s) == IF s = <<>> THEN <<>> ELSE <<UpperChar(Head(s))>> \o Lower(Tail(s))

\* the substring test `sub in s`
Contains(s, sub) ==
    \E i \in 1..(Len(s) - Len(sub) + 1) : SubSeq(s, i, i + Len(sub) - 1) = sub

RECURSIVE Split(_)
\* str.split('/'): the empty string splits into one empty segment
Split(s) ==
    IF \E i \in 1..Len(s) : s[i] = "/"
    THEN LET i == CHOOSE k \in 1..Len(s) :
                     s[k] = "/" /\ \A j \in 1..(k - 1) : s[j] # "/"
         IN  <<SubSeq(s, 1, i - 1)>> \o Split(SubSeq(s, i + 1, Len(s)))
    ELSE <<s>>

\* Python index of the resource-group segment in a split identifier
RgIndex == 4

-----------------------------------------------------------------------------
(* String literals of the program *)

S_unknown_rg == <<"u", "n", "k", "n", "o", "w", "n">>
S_na == <<"N", "/", "A">>
S_powerstate == <<"p", "o", "w", "e", "r", "s", "t", "a", "t", "e">>
S_running == <<"r", "u", "n", "n", "i", "n", "g">>
S_connected == <<"c", "o", "n", "n", "e", "c", "t", "e", "d">>
S_azuremonitor == <<"a", "z", "u", "r", "e", "m", "o", "n", "i", "t", "o", "r">>
S_agent == <<"a", "g", "e", "n", "t">>
S_usedcapacity == <<"u", "s", "e", "d", "c", "a", "p", "a", "c", "i", "t", "y">>
S_transactions == <<"t", "r", "a", "n", "s", "a", "c", "t", "i", "o", "n", "s">>
S_ingress == <<"i", "n", "g", "r", "e", "s", "s">>
S_egress == <<"e", "g", "r", "e", "s", "s">>
S_successe2elatency == <<"s", "u", "c", "c", "e", "s", "s", "e", "2", "e", "l", "a", "t", "e", "n", "c", "y">>
S_successserverlatency == <<"s", "u", "c", "c", "e", "s", "s", "s", "e", "r", "v", "e", "r", "l", "a", "t", "e", "n", "c", "y">>
S_availability == <<"a", "v", "a", "i", "l", "a", "b", "i", "l", "i", "t", "y">>
K_UsedCapacity == <<"U", "s", "e", "d", "C", "a", "p", "a", "c", "i", "t", "y">>
K_Transactions == <<"T", "r", "a", "n", "s", "a", "c", "t", "i", "o", "n", "s">>
K_SuccessE2ELatency == <<"S", "u", "c", "c", "e", "s", "s", "E", "2", "E", "L", "a", "t", "e", "n", "c", "y">>
K_SuccessServerLatency == <<"S", "u", "c", "c", "e", "s", "s", "S", "e", "r", "v", "e", "r", "L", "a", "t", "e", "n", "c", "y">>
K_Availability == <<"A", "v", "a", "i", "l", "a", "b", "i", "l", "i", "t", "y">>

-----------------------------------------------------------------------------
(* Values the upstream API can put in its answers *)

\* instance-view status codes of a native VM
CodePowerRunning == <<"P", "o", "w", "e", "r", "S", "t", "a", "t", "e", "/", "r", "u", "n", "n", "i", "n", "g">>
CodePowerDeallocated == <<"P", "o", "w", "e", "r", "S", "t", "a", "t", "e", "/", "d", "e", "a", "l", "l", "o", "c", "a", "t", "e", "d">>
CodeProvisioned == <<"P", "r", "o", "v", "i", "s", "i", "o", "n", "i", "n", "g", "S", "t", "a", "t", "e", "/", "s", "u", "c", "c", "e", "e", "d", "e", "d">>
\* connectivity status of an Arc machine
ArcConnected == <<"C", "o", "n", "n", "e", "c", "t", "e", "d">>
ArcDisconnected == <<"D", "i", "s", "c", "o", "n", "n", "e", "c", "t", "e", "d">>
\* extension names
ExtAMAWindows == <<"A", "z", "u", "r", "e", "M", "o", "n", "i", "t", "o", "r", "W", "i", "n", "d", "o", "w", "s", "A", "g", "e", "n", "t">>
ExtMMA == <<"M", "i", "c", "r", "o", "s", "o", "f", "t", "M", "o", "n", "i", "t", "o", "r", "i", "n", "g", "A", "g", "e", "n", "t">>
\* metric names as the metrics API spells them, and two it may also return
NameUsedCapacity == K_UsedCapacity
NameTransactions == K_Transactions
NameIngress == <<"I", "n", "g", "r", "e", "s", "s">>
NameEgress == <<"E", "g", "r", "e", "s", "s">>
NameSuccessE2ELatency == K_SuccessE2ELatency
NameSuccessServerLatency == K_SuccessServerLatency
NameAvailability == K_Availability
NameOther == <<"B", "l", "o", "b", "C", "o", "u", "n", "t">>
\* resource identifiers: /s/0/g/<resource group>/p stands for
\* /subscriptions/<sub>/resourceGroups/<resource group>/providers/...
IdRgLower == <<"/", "s", "/", "0", "/", "g", "/", "r", "g", "/", "p">>
IdRgUpper == <<"/", "s", "/", "0", "/", "g", "/", "R", "G", "/", "p">>
IdRgMixed == <<"/", "s", "/", "0", "/", "g", "/", "R", "g", "/", "p">>
IdRgOther == <<"/", "s", "/", "0", "/", "g", "/", "q", "a", "/", "p">>
IdShort == <<"/", "s", "/", "0">>
IdEmpty == <<>>

-----------------------------------------------------------------------------
(* HTTP responses: a transport exception (which includes a timeout), or a  *)
(* status code with a body that may fail to parse as JSON.                 *)

ExcResponse(empty) == [exc |-> TRUE, status |-> 0, json_ok |-> FALSE, body |-> empty]
HttpResponse(s, b) == [exc |-> FALSE, status |-> s, json_ok |-> TRUE, body |-> b]
BadJsonResponse(s, empty) == [exc |-> FALSE, status |-> s, json_ok |-> FALSE, body |-> empty]

\* the answers to one request whose successful bodies are `bodies`
Responses(bodies, empty) ==
    {ExcResponse(empty), HttpResponse(404, empty), BadJsonResponse(200, empty)}
        \cup {HttpResponse(200, b) : b \in bodies}

\* requests: response.ok
RespOk(r) == r.status < 400

\* the call failed: transport exception or non-success status
Failed(r) == r.exc \/ ~RespOk(r)

\* outcome of a function: a returned value, or an exception leaving it
Ret(v) == [raised |-> FALSE, value |-> v]
Raise == [raised |-> TRUE, value |-> "exception"]

\* sequences over S of length at most n
SeqUpTo(S, n) == UNION {[1..k -> S] : k \in 0..n}

-----------------------------------------------------------------------------
(* Detail fetchers *)

RECURSIVE PowerOfStatuses(_)
\* the loop over data["statuses"]: the first code containing "powerstate"
PowerOfStatuses(statuses) ==
    IF statuses = <<>> THEN "unknown"
    ELSE LET code == Lower(Head(statuses))
         IN  IF Contains(code, S_powerstate)
             THEN (IF Contains(code, S_running) THEN "running" ELSE "stopped")
             ELSE PowerOfStatuses(Tail(statuses))

\* the body of the try block of get_vm_power_state
PowerStateTry(r, vm_type) ==
    IF r.exc THEN Raise
    ELSE IF r.status = 200
    THEN IF ~r.json_ok THEN Raise
         ELSE IF vm_type = "Compute"
         THEN Ret(PowerOfStatuses(r.body.statuses))
         ELSE Ret(IF Lower(r.body.status) = S_connected THEN "running" ELSE "stopped")
    ELSE Ret("unknown")

\* get_vm_power_state without its except clause
get_vm_power_state_uncaught(r, vm_type) == PowerStateTry(r, vm_type)

get_vm_power_state(r, vm_type) ==
    LET t == PowerStateTry(r, vm_type)
    IN  IF t.raised THEN Ret("unknown") ELSE t

\* the loop over the extensions list without the provisioningState test
AgentInstalled_any_state(extensions) ==
    \E i \in 1..Len(extensions) :
        LET ext_name == Lower(extensions[i].name)
        IN  Contains(ext_name, S_azuremonitor) /\ Contains(ext_name, S_agent)

\* the loop over the extensions list
AgentInstalled(extensions) ==
    \E i \in 1..Len(extensions) :
        LET ext_name == Lower(extensions[i].name)
        IN  /\ Contains(ext_name, S_azuremonitor)
            /\ Contains(ext_name, S_agent)
            /\ extensions[i].provisioningState = "Succeeded"

\* the body of the try block of get_vm_insights_status
InsightsTry(ext, dcr) ==
    IF ext.exc THEN Raise
    ELSE IF ext.status = 200 /\ ~ext.json_ok THEN Raise
    ELSE IF ext.status = 200 /\ AgentInstalled(ext.body) THEN Ret("Enabled")
    ELSE IF dcr.exc THEN Raise
    ELSE IF dcr.status = 200 /\ ~dcr.json_ok THEN Raise
    ELSE IF dcr.status = 200 /\ dcr.body # <<>> THEN Ret("Enabled")
    ELSE Ret("Not enabled")

\* get_vm_insights_status without its except clause
get_vm_insights_status_uncaught(ext, dcr) == InsightsTry(ext, dcr)

get_vm_insights_status(ext, dcr) ==
    LET t == InsightsTry(ext, dcr)
    IN  IF t.raised THEN Ret("Unknown") ELSE t

\* Python truthiness of an optional string: None and "" are false
Truthy(opt) == opt # <<>> /\ opt[1] # <<>>

\* the body of the try block of get_resource_health
HealthTry(r) ==
    IF r.exc THEN Raise
    ELSE IF RespOk(r)
    THEN IF ~r.json_ok THEN Raise
         ELSE Ret(IF r.body = <<>> THEN "Unknown" ELSE r.body[1])
    ELSE Ret("Unknown")

get_resource_health(resource_id, r) ==
    IF ~Truthy(resource_id) THEN Ret("Unknown")
    ELSE LET t == HealthTry(r)
         IN  IF t.raised THEN Ret("Unknown") ELSE t

-----------------------------------------------------------------------------
(* Answers to the detail requests *)

PowerBodies ==
    {[statuses |-> s, status |-> c] :
        s \in SeqUpTo({CodePowerRunning, CodePowerDeallocated, CodeProvisioned}, MaxDetail),
        c \in {<<>>, ArcConnected, ArcDisconnected}}
EmptyPowerBody == [statuses |-> <<>>, status |-> <<>>]
PowerResponses == Responses(PowerBodies, EmptyPowerBody)

Extensions ==
    {[name |-> n, provisioningState |-> p] :
        n \in {ExtAMAWindows, ExtMMA}, p \in {"Succeeded", "Failed"}}
ExtensionResponses == Responses(SeqUpTo(Extensions, MaxDetail), <<>>)
DcrResponses == Responses(SeqUpTo({"association"}, MaxDetail), <<>>)

\* availabilityState: absent, or one of the states the health API reports
HealthBodies == {<<>>, <<"Available">>, <<"Degraded">>, <<"Unavailable">>, <<"Unknown">>}
HealthResponses == Responses(HealthBodies, <<>>)

\* item.get('id'): None, the empty string, or an identifier
OptionalIds == {<<>>, <<IdEmpty>>, <<IdRgLower>>}

-----------------------------------------------------------------------------
(* Metric normalizer *)

RECURSIVE GCD(_, _)
GCD(a, b) == IF b = 0 THEN a ELSE GCD(b, a % b)

\* the quotient a / b of Python's true division, as a fraction in lowest terms
Quotient(a, b) == LET g == GCD(a, b) IN <<a \div g, b \div g>>

\* the literal 0 an empty list of values reduces to
Zero == <<0, 1>>

RECURSIVE SumSeq(_)
\* sum(...)
SumSeq(xs) == IF xs = <<>> THEN 0 ELSE Head(xs) + SumSeq(Tail(xs))

RECURSIVE TotalsOf(_)
\* point.get("total", 0) for point in datapoints if point.get("total") is not None
TotalsOf(datapoints) ==
    IF datapoints = <<>> THEN <<>>
    ELSE (IF Head(datapoints).total # <<>> THEN <<Head(datapoints).total[1]>> ELSE <<>>)
             \o TotalsOf(Tail(datapoints))

RECURSIVE AveragesOf(_)
\* point.get("average", 0) for point in datapoints if point.get("average") is not None
AveragesOf(datapoints) ==
    IF datapoints = <<>> THEN <<>>
    ELSE (IF Head(datapoints).average # <<>> THEN <<Head(datapoints).average[1]>> ELSE <<>>)
             \o AveragesOf(Tail(datapoints))

\* sum(values) / len(values) if values else 0
MeanOf(values) == IF values # <<>> THEN Quotient(SumSeq(values), Len(values)) ELSE Zero

\* the sum reduction reading the 'average' field instead of 'total'
SumReduce_average_field(datapoints) == SumSeq(AveragesOf(datapoints))

\* sum(point.get("total", 0) for point in datapoints if ... is not None)
SumReduce(datapoints) == SumSeq(TotalsOf(datapoints))

\* the mean dividing by the number of data points, null ones included
AverageReduce_all_points(datapoints) ==
    IF AveragesOf(datapoints) # <<>>
    THEN Quotient(SumSeq(AveragesOf(datapoints)), Len(datapoints))
    ELSE Zero

\* values = [...]; sum(values) / len(values) if values else 0
AverageReduce(datapoints) == MeanOf(AveragesOf(datapoints))

\* a dict: a function from its keys
EmptyDict == [k \in {} |-> 0]
Put(d, k, v) == [x \in (DOMAIN d) \cup {k} |-> IF x = k THEN v ELSE d[x]]

\* `timeseries and "data" in timeseries[0]`
HasData(timeseries) == timeseries # <<>> /\ "data" \in DOMAIN timeseries[1]

\* one iteration of the loop over the UsedCapacity response
CapacityEntry(metrics, metric) ==
    LET mname == Lower(metric.name)
    IN  IF HasData(metric.timeseries) /\ mname = S_usedcapacity
        THEN Put(metrics, K_UsedCapacity, AverageReduce(metric.timeseries[1].data))
        ELSE metrics

\* one iteration of the loop over the dimensioned-metrics response
MetricEntry(metrics, metric) ==
    LET mname == Lower(metric.name)
        datapoints == metric.timeseries[1].data
    IN  IF ~HasData(metric.timeseries) THEN metrics
        ELSE IF mname = S_transactions
        THEN Put(metrics, K_Transactions, SumReduce(datapoints))
        ELSE IF mname \in {S_ingress, S_egress}
        THEN Put(metrics, Capitalize(mname), SumReduce(datapoints))
        ELSE IF mname = S_successe2elatency
        THEN Put(metrics, K_SuccessE2ELatency, AverageReduce(datapoints))
        ELSE IF mname = S_successserverlatency
        THEN Put(metrics, K_SuccessServerLatency, AverageReduce(datapoints))
        ELSE IF mname = S_availability
        THEN Put(metrics, K_Availability, AverageReduce(datapoints))
        ELSE metrics

RECURSIVE CapacityLoop(_, _)
CapacityLoop(metrics, value) ==
    IF value = <<>> THEN metrics
    ELSE CapacityLoop(CapacityEntry(metrics, Head(value)), Tail(value))

RECURSIVE MetricLoop(_, _)
MetricLoop(metrics, value) ==
    IF value = <<>> THEN metrics
    ELSE MetricLoop(MetricEntry(metrics, Head(value)), Tail(value))

\* the value get_storage_account_metrics returns: None, or the metrics dict
NoMetrics == [is_none |-> TRUE, samples |-> EmptyDict]
Metrics(d) == [is_none |-> FALSE, samples |-> d]

\* dict.get("id"): None when the key is absent
GetId(descriptor) == IF "id" \in DOMAIN descriptor THEN <<descriptor.id>> ELSE <<>>

\* the UsedCapacity request and its loop
CollectCapacity(metrics, cap) ==
    IF cap.exc THEN Raise
    ELSE IF ~RespOk(cap) THEN Ret(metrics)
    ELSE IF ~cap.json_ok THEN Raise
    ELSE Ret(CapacityLoop(metrics, cap.body))

\* the dimensioned-metrics request and its loop
CollectOther(metrics, met) ==
    IF met.exc THEN Raise
    ELSE IF ~RespOk(met) THEN Ret(metrics)
    ELSE IF ~met.json_ok THEN Raise
    ELSE Ret(MetricLoop(metrics, met.body))

get_storage_account_metrics(storage_account, cap, met) ==
    IF ~Truthy(GetId(storage_account)) THEN Ret(NoMetrics)
    ELSE LET c == CollectCapacity(EmptyDict, cap)
         IN  IF c.raised THEN Raise
             ELSE LET m == CollectOther(c.value, met)
                  IN  IF m.raised THEN Raise ELSE Ret(Metrics(m.value))

-----------------------------------------------------------------------------
(* Answers to the metrics requests *)

\* data points of the dimensioned response (aggregation=Total,Average)
Points ==
    {[total |-> <<>>, average |-> <<>>],
     [total |-> <<0>>, average |-> <<0>>],
     [total |-> <<3>>, average |-> <<1>>]}
\* data points of the UsedCapacity response (aggregation=Average)
CapacityPoints ==
    {[total |-> <<>>, average |-> <<>>],
     [total |-> <<>>, average |-> <<0>>],
     [total |-> <<>>, average |-> <<3>>]}

\* the timeseries of one metric: none, one without data, or one with data
TimeSeries(points) ==
    {<<>>, <<[metadatavalues |-> <<>>]>>}
        \cup {<<[data |-> d]>> : d \in SeqUpTo(points, MaxPoints)}

SumNames == {NameTransactions, NameIngress, NameEgress}
AverageNames == {NameSuccessE2ELatency, NameSuccessServerLatency, NameAvailability}

MetricEntries ==
    {[name |-> n, timeseries |-> t] :
        n \in SumNames \cup AverageNames \cup {NameOther}, t \in TimeSeries(Points)}
CapacityEntries ==
    {[name |-> n, timeseries |-> t] :
        n \in {NameUsedCapacity, NameOther}, t \in TimeSeries(CapacityPoints)}

MetricResponses == Responses(SeqUpTo(MetricEntries, MaxEntries), <<>>)
CapacityResponses == Responses(SeqUpTo(CapacityEntries, MaxEntries), <<>>)

\* one representative answer of each outcome
SampleSeries == <<[data |-> <<[total |-> <<3>>, average |-> <<1>>]>>]>>
MetricCases ==
    {ExcResponse(<<>>), HttpResponse(404, <<>>),
     HttpResponse(200, <<[name |-> NameTransactions, timeseries |-> SampleSeries]>>)}
CapacityCases ==
    {ExcResponse(<<>>), HttpResponse(404, <<>>),
     HttpResponse(200, <<[name |-> NameUsedCapacity, timeseries |-> SampleSeries]>>)}

\* storage-account descriptors
StorageAccounts ==
    {[name |-> "sa", id |-> IdRgLower], [name |-> "sa", id |-> IdRgUpper],
     [name |-> "sa", id |-> IdShort], [name |-> "sa", id |-> IdEmpty], [name |-> "sa"]}

-----------------------------------------------------------------------------
(* Record aggregator for machines *)

\* dict.get(key, default) on a descriptor
GetOr(descriptor, key, default) ==
    IF key \in DOMAIN descriptor THEN descriptor[key] ELSE default

\* identifier.split('/')[4]: IndexError when there are fewer than five segments
RgSegment(resource_id) ==
    LET parts == Split(resource_id)
    IN  IF Len(parts) > RgIndex THEN Ret(parts[RgIndex + 1]) ELSE Raise

\* rg_name = resource_id.split('/')[4].lower() if resource_id else "unknown"
VmRgName(vm) ==
    LET resource_id == GetOr(vm, "id", <<>>)
    IN  IF resource_id # <<>>
        THEN LET seg == RgSegment(resource_id)
             IN  IF seg.raised THEN Raise ELSE Ret(Lower(seg.value))
        ELSE Ret(S_unknown_rg)

\* resource_groups is a dict in insertion order: a sequence of [rg, machines]
HasGroup(resource_groups, rg_name) ==
    \E i \in 1..Len(resource_groups) : resource_groups[i].rg = rg_name

\* if rg_name not in resource_groups: resource_groups[rg_name] = {'machines': []}
EnsureGroup(resource_groups, rg_name) ==
    IF HasGroup(resource_groups, rg_name) THEN resource_groups
    ELSE Append(resource_groups, [rg |-> rg_name, machines |-> <<>>])

\* resource_groups[rg_name]['machines'].append(machine)
AppendMachine(resource_groups, rg_name, machine) ==
    [i \in 1..Len(resource_groups) |->
        IF resource_groups[i].rg = rg_name
        THEN [resource_groups[i] EXCEPT !.machines = Append(@, machine)]
        ELSE resource_groups[i]]

\* the counter update counting every machine as monitored
UpdateCounters_always_monitored(m, insights_status) ==
    [m EXCEPT !.total_machines = @ + 1, !.total_monitored = @ + 1]

\* total_machines += 1; if insights_status == "Enabled": total_monitored += 1
UpdateCounters(m, insights_status) ==
    [m EXCEPT !.total_machines = @ + 1,
              !.total_monitored = IF insights_status = "Enabled" THEN @ + 1 ELSE @]

\* process_vm: the new value of vm_metrics, or the exception leaving it (in
\* which case vm_metrics has not been touched)
process_vm(m, vm, vm_type, pw, ext, dcr) ==
    LET vm_name == GetOr(vm, "name", "Unnamed")
        rg_name == VmRgName(vm)
        power_state == get_vm_power_state(pw, vm_type)
        insights_status == get_vm_insights_status(ext, dcr)
    IN  IF rg_name.raised \/ power_state.raised \/ insights_status.raised THEN Raise
        ELSE LET machine == [name |-> vm_name,
                             type |-> vm_type,
                             power_state |-> power_state.value,
                             monitored |-> (insights_status.value = "Enabled"),
                             insights_status |-> insights_status.value]
                 groups == AppendMachine(EnsureGroup(m.resource_groups, rg_name.value),
                                         rg_name.value, machine)
             IN  Ret(UpdateCounters([m EXCEPT !.resource_groups = groups],
                                    insights_status.value))

\* machine descriptors
VmDescriptors ==
    {[name |-> "vm", id |-> IdRgLower], [name |-> "vm", id |-> IdRgUpper],
     [name |-> "vm", id |-> IdShort], [name |-> "vm", id |-> IdEmpty], [name |-> "vm"]}

\* one representative answer of each outcome of the power-state lookup
PowerCases ==
    {ExcResponse(EmptyPowerBody), HttpResponse(404, EmptyPowerBody),
     HttpResponse(200, [statuses |-> <<CodeProvisioned, CodePowerRunning>>,
                        status |-> ArcConnected])}

\* one representative pair of answers of each outcome of the monitoring check
InsightsCases ==
    {[ext |-> HttpResponse(200, <<[name |-> ExtAMAWindows, provisioningState |-> "Succeeded"]>>),
      dcr |-> HttpResponse(200, <<>>)],
     [ext |-> HttpResponse(404, <<>>), dcr |-> HttpResponse(404, <<>>)],
     [ext |-> ExcResponse(<<>>), dcr |-> HttpResponse(200, <<>>)]}

-----------------------------------------------------------------------------
(* Resource enumerators *)

\* response.raise_for_status(); return response.json().get("value", [])
ListingValue(r) ==
    IF r.exc \/ ~RespOk(r) \/ ~r.json_ok THEN Raise ELSE Ret(r.body.value)

get_storage_accounts(r) == ListingValue(r)
get_vms(r) == ListingValue(r)
get_arc_machines(r) == ListingValue(r)

-----------------------------------------------------------------------------
(* Storage-account records of main() *)

\* sa.get("id", "").split("/")[4] if "id" in sa else "N/A"
StorageRgName(sa) == IF "id" \in DOMAIN sa THEN RgSegment(sa.id) ELSE Ret(S_na)

\* one iteration of the loop of main() over storage_accounts: the record to
\* append, or the exception leaving the loop
StorageRecord(sa, cap, met) ==
    LET sa_name == GetOr(sa, "name", "N/A")
        sa_metrics == get_storage_account_metrics(sa, cap, met)
        rg == StorageRgName(sa)
    IN  IF sa_metrics.raised \/ rg.raised THEN Raise
        ELSE Ret([storage_account |-> sa_name,
                  resource_group |-> rg.value,
                  metrics |-> sa_metrics.value])

-----------------------------------------------------------------------------
(* Network resources *)

\* the keys of the `resources` dict of get_network_resources, in its order
NetworkTypes ==
    <<"virtual_networks", "network_interfaces", "network_security_groups",
      "public_ips", "route_tables", "private_endpoints", "expressroute_circuits",
      "virtual_network_gateways", "er_vpn_connections", "express_route_gateways",
      "network_virtual_appliances">>

NetworkTypeSet == {NetworkTypes[i] : i \in 1..Len(NetworkTypes)}

\* network_metrics as get_network_resources initialises it
InitNetworkMetrics == [t \in NetworkTypeSet |-> [count |-> 0, items |-> <<>>]]

\* item.get('id', '').split('/')[4]
NetworkRgName(item) == RgSegment(GetOr(item, "id", <<>>))

\* the resource_info dict of one item, or the exception its construction raises
ResourceInfo(item, health) ==
    LET rg == NetworkRgName(item)
        health_state == get_resource_health(GetId(item), health)
    IN  IF rg.raised \/ health_state.raised THEN Raise
        ELSE Ret([name |-> GetOr(item, "name", "None"),
                  resource_group |-> rg.value,
                  provisioning_state |-> GetOr(item, "provisioningState", "Unknown"),
                  health_state |-> health_state.value])

RECURSIVE AppendItems(_, _)
\* the loop over items: it appends one resource_info per item and stops at
\* the first exception, which the enclosing except clause absorbs
AppendItems(infos, resources) ==
    IF resources = <<>> THEN infos
    ELSE LET info == ResourceInfo(Head(resources).desc, Head(resources).health)
         IN  IF info.raised THEN infos
             ELSE AppendItems(Append(infos, info.value), Tail(resources))

\* one iteration of the loop over the resource types: the new entry of
\* network_metrics for the type, given the listing answer r and the
\* resources (descriptor and health answer) of the page it returned
NetworkEntry(entry, r, resources) ==
    IF r.exc THEN entry
    ELSE IF ~RespOk(r) THEN entry
    ELSE IF ~r.json_ok THEN entry
    ELSE [count |-> Len(r.body.value),
          items |-> AppendItems(entry.items, resources)]

-----------------------------------------------------------------------------
(* The upstream API of one run.  For each resource kind it holds the        *)
(* outcome of the listing request, the inventory of the subscription, the   *)
(* number of resources the first page of the listing carries, and with each *)
(* resource the answers to the requests made about it.                      *)

Inventories(resources) == SeqUpTo(resources, MaxList)

ListingAnswers(resources) ==
    {[outcome |-> o, inventory |-> <<>>, first_page |-> 0] : o \in {"exc", "http_error"}}
    \cup
    UNION {{[outcome |-> "ok", inventory |-> inv, first_page |-> n] : n \in 1..Len(inv)} :
              inv \in Inventories(resources) \ {<<>>}}
    \cup
    {[outcome |-> "ok", inventory |-> <<>>, first_page |-> 0]}

RECURSIVE DescriptorsOf(_)
DescriptorsOf(resources) ==
    IF resources = <<>> THEN <<>>
    ELSE <<Head(resources).desc>> \o DescriptorsOf(Tail(resources))

\* the resources on the first page of a listing
FirstPage(u) ==
    SubSeq(u.inventory, 1, IF u.first_page < Len(u.inventory)
                           THEN u.first_page ELSE Len(u.inventory))

\* the HTTP answer to a listing request
ListingResponse(u) ==
    IF u.outcome = "exc" THEN ExcResponse([value |-> <<>>, nextLink |-> FALSE])
    ELSE IF u.outcome = "http_error"
    THEN HttpResponse(500, [value |-> <<>>, nextLink |-> FALSE])
    ELSE HttpResponse(200, [value |-> DescriptorsOf(FirstPage(u)),
                            nextLink |-> u.first_page < Len(u.inventory)])

\* a well-formed descriptor of each kind and the successful answers about it
PlainStorageAccount == [name |-> "sa", id |-> IdRgLower]
PlainStorageAnswer ==
    [cap |-> HttpResponse(200, <<[name |-> NameUsedCapacity, timeseries |-> SampleSeries]>>),
     met |-> HttpResponse(200, <<[name |-> NameTransactions, timeseries |-> SampleSeries]>>)]
PlainMachine == [name |-> "vm", id |-> IdRgLower]
PlainMachineAnswer ==
    [pw |-> HttpResponse(200, [statuses |-> <<CodePowerRunning>>, status |-> ArcConnected]),
     ext |-> HttpResponse(200, <<[name |-> ExtAMAWindows,
                                  provisioningState |-> "Succeeded"]>>),
     dcr |-> HttpResponse(200, <<>>)]
PlainNetworkItem == [name |-> "net", id |-> IdRgLower, provisioningState |-> "Succeeded"]
PlainHealthAnswer == HttpResponse(200, <<"Available">>)

\* the answers to the two metric requests about one storage account
StorageAnswers ==
    {[cap |-> x, met |-> x] : x \in {ExcResponse(<<>>), HttpResponse(404, <<>>)}}
    \cup {[cap |-> HttpResponse(200, <<[name |-> NameUsedCapacity,
                                        timeseries |-> SampleSeries]>>),
           met |-> HttpResponse(200, <<[name |-> NameTransactions,
                                        timeseries |-> SampleSeries]>>)]}

\* the answers to the three detail requests about one machine
MachineAnswers ==
    {[pw |-> HttpResponse(200, [statuses |-> <<CodePowerRunning>>,
                                status |-> ArcConnected]),
      ext |-> HttpResponse(200, <<[name |-> ExtAMAWindows,
                                   provisioningState |-> "Succeeded"]>>),
      dcr |-> HttpResponse(200, <<>>)],
     [pw |-> HttpResponse(404, EmptyPowerBody),
      ext |-> HttpResponse(404, <<>>), dcr |-> HttpResponse(404, <<>>)],
     [pw |-> ExcResponse(EmptyPowerBody),
      ext |-> ExcResponse(<<>>), dcr |-> ExcResponse(<<>>)]}

\* the answers to the health request about one network resource
HealthAnswers ==
    {HttpResponse(200, <<"Available">>), HttpResponse(404, <<>>), ExcResponse(<<>>)}

NetworkItems ==
    {[name |-> "net", id |-> IdRgLower, provisioningState |-> "Succeeded"],
     [name |-> "net", id |-> IdRgUpper],
     [name |-> "net", id |-> IdShort, provisioningState |-> "Succeeded"],
     [name |-> "net"]}

\* the resources of a subscription: every descriptor with every request
\* answered successfully, and the well-formed descriptor with every answer
StorageResources ==
    {[desc |-> d, cap |-> c.cap, met |-> c.met] :
        d \in StorageAccounts, c \in {PlainStorageAnswer}}
    \cup {[desc |-> PlainStorageAccount, cap |-> c.cap, met |-> c.met] :
              c \in StorageAnswers}

MachineResources ==
    {[desc |-> d, pw |-> c.pw, ext |-> c.ext, dcr |-> c.dcr] :
        d \in VmDescriptors, c \in {PlainMachineAnswer}}
    \cup {[desc |-> PlainMachine, pw |-> c.pw, ext |-> c.ext, dcr |-> c.dcr] :
              c \in MachineAnswers}

NetworkResources ==
    {[desc |-> d, health |-> PlainHealthAnswer] : d \in NetworkItems}
    \cup {[desc |-> PlainNetworkItem, health |-> h] : h \in HealthAnswers}

\* a subscription with one well-formed resource of each kind, all requests
\* answered successfully
PlainStorage ==
    [outcome |-> "ok", first_page |-> 1,
     inventory |-> <<[desc |-> [name |-> "sa", id |-> IdRgLower],
                      cap |-> HttpResponse(200, <<>>), met |-> HttpResponse(200, <<>>)]>>]
PlainMachines ==
    [outcome |-> "ok", first_page |-> 1,
     inventory |-> <<[desc |-> [name |-> "vm", id |-> IdRgLower],
                      pw |-> HttpResponse(200, [statuses |-> <<CodePowerRunning>>,
                                                status |-> ArcConnected]),
                      ext |-> HttpResponse(200, <<>>), dcr |-> HttpResponse(200, <<>>)]>>]
PlainNetwork ==
    [outcome |-> "ok", first_page |-> 1,
     inventory |-> <<[desc |-> [name |-> "net", id |-> IdRgLower,
                                provisioningState |-> "Succeeded"],
                      health |-> HttpResponse(200, <<"Available">>)]>>]

ModelledTypes == {NetworkTypes[i] : i \in 1..MaxNetTypes}

PlainUpstream ==
    [auth_ok |-> TRUE, storage |-> PlainStorage, vms |-> PlainMachines,
     arc |-> PlainMachines, net |-> [t \in ModelledTypes |-> PlainNetwork]]

\* the upstreams of the model: the plain subscription with the credentials
\* missing, or with the answers about one resource kind drawn freely
Upstreams ==
    {[PlainUpstream EXCEPT !.auth_ok = FALSE]}
    \cup {[PlainUpstream EXCEPT !.storage = u] : u \in ListingAnswers(StorageResources)}
    \cup {[PlainUpstream EXCEPT !.vms = u] : u \in ListingAnswers(MachineResources)}
    \cup {[PlainUpstream EXCEPT !.arc = u] : u \in ListingAnswers(MachineResources)}
    \cup UNION {{[PlainUpstream EXCEPT !.net[t] = u] :
                    u \in ListingAnswers(NetworkResources)} : t \in ModelledTypes}

-----------------------------------------------------------------------------
(* State of a run before main() has done anything *)

Kinds == {"storage", "vms", "arc"} \cup NetworkTypeSet

NoUpstream == [kind |-> "none"]
NoCall == [fn |-> "none"]
Pending == Ret("pending")

InitVmMetrics == [total_machines |-> 0, total_monitored |-> 0, resource_groups |-> <<>>]

Idle ==
    /\ exit_code = -1
    /\ upstream = NoUpstream
    /\ token_calls = 0
    /\ listing = [k \in Kinds |-> "pending"]
    /\ listed = [k \in Kinds |-> <<>>]
    /\ queue = <<>>
    /\ metrics_results = <<>>
    /\ vm_metrics = InitVmMetrics
    /\ network_metrics = InitNetworkMetrics
    /\ net_todo = <<>>

mainVars == <<exit_code, upstream, token_calls, listing, listed, queue,
              metrics_results, vm_metrics, network_metrics, net_todo>>

-----------------------------------------------------------------------------
(* The detail fetchers, each called once on drawn arguments *)

FetchCalls ==
    {[fn |-> "get_vm_power_state", args |-> [r |-> r, vm_type |-> t], result |-> Pending] :
        r \in PowerResponses, t \in {"Compute", "Arc"}}
    \cup
    {[fn |-> "get_vm_insights_status", args |-> [ext |-> e, dcr |-> d], result |-> Pending] :
        e \in ExtensionResponses, d \in DcrResponses}
    \cup
    {[fn |-> "get_resource_health", args |-> [resource_id |-> i, r |-> r], result |-> Pending] :
        i \in OptionalIds, r \in HealthResponses}

InitFetch == pc = "call" /\ call \in FetchCalls /\ Idle

CallPowerState ==
    /\ pc = "call" /\ call.fn = "get_vm_power_state"
    /\ call' = [call EXCEPT !.result = get_vm_power_state(call.args.r, call.args.vm_type)]
    /\ pc' = "returned"
    /\ UNCHANGED mainVars

CallInsightsStatus ==
    /\ pc = "call" /\ call.fn = "get_vm_insights_status"
    /\ call' = [call EXCEPT !.result = get_vm_insights_status(call.args.ext, call.args.dcr)]
    /\ pc' = "returned"
    /\ UNCHANGED mainVars

CallResourceHealth ==
    /\ pc = "call" /\ call.fn = "get_resource_health"
    /\ call' = [call EXCEPT !.result = get_resource_health(call.args.resource_id, call.args.r)]
    /\ pc' = "returned"
    /\ UNCHANGED mainVars

NextFetch == CallPowerState \/ CallInsightsStatus \/ CallResourceHealth

SpecFetch == InitFetch /\ [][NextFetch]_vars

-----------------------------------------------------------------------------
(* The metric normalizer, called once on drawn arguments *)

MetricCalls ==
    {[fn |-> "get_storage_account_metrics",
      args |-> [storage_account |-> sa, cap |-> x[1], met |-> x[2]], result |-> Pending] :
        sa \in {[name |-> "sa", id |-> IdRgLower]},
        x \in (CapacityResponses \X MetricCases) \cup (CapacityCases \X MetricResponses)}
    \cup
    {[fn |-> "get_storage_account_metrics",
      args |-> [storage_account |-> sa, cap |-> x[1], met |-> x[2]], result |-> Pending] :
        sa \in {[name |-> "sa", id |-> IdEmpty], [name |-> "sa"]},
        x \in CapacityCases \X MetricCases}

InitMetrics == pc = "call" /\ call \in MetricCalls /\ Idle

CallStorageAccountMetrics ==
    /\ pc = "call" /\ call.fn = "get_storage_account_metrics"
    /\ call' = [call EXCEPT !.result =
                   get_storage_account_metrics(call.args.storage_account,
                                               call.args.cap, call.args.met)]
    /\ pc' = "returned"
    /\ UNCHANGED mainVars

NextMetrics == CallStorageAccountMetrics

SpecMetrics == InitMetrics /\ [][NextMetrics]_vars

-----------------------------------------------------------------------------
(* get_vm_metrics as a sequence of process_vm calls: native VMs first, then *)
(* Arc machines, each call on a drawn descriptor and drawn answers.  An     *)
(* exception leaving process_vm ends the sequence.                          *)

InitVM ==
    /\ pc = "compute"
    /\ call = [fn |-> "process_vm", seq |-> 0, args |-> <<>>, result |-> Pending]
    /\ Idle

ProcessCall(vm_type) ==
    /\ call.seq < MaxCalls
    /\ \E vm \in VmDescriptors, pw \in PowerCases, ins \in InsightsCases :
          \E r \in {process_vm(vm_metrics, vm, vm_type, pw, ins.ext, ins.dcr)} :
              /\ call' = [fn |-> "process_vm", seq |-> call.seq + 1,
                          args |-> [vm |-> vm, vm_type |-> vm_type, pw |-> pw,
                                    ext |-> ins.ext, dcr |-> ins.dcr],
                          result |-> [raised |-> r.raised, value |-> "none"]]
              /\ vm_metrics' = IF r.raised THEN vm_metrics ELSE r.value
              /\ pc' = IF r.raised THEN "raised"
                       ELSE IF vm_type = "Compute" THEN "compute" ELSE "arc"
    /\ UNCHANGED <<exit_code, upstream, token_calls, listing, listed, queue,
                   metrics_results, network_metrics, net_todo>>

ProcessComputeVm == pc = "compute" /\ ProcessCall("Compute")

ProcessArcMachine == pc \in {"compute", "arc"} /\ ProcessCall("Arc")

NextVM == ProcessComputeVm \/ ProcessArcMachine

SpecVM == InitVM /\ [][NextVM]_vars

-----------------------------------------------------------------------------
(* Resource-group key extraction of each resource kind, applied to two      *)
(* drawn descriptors                                                        *)

KeyDescriptors ==
    {[name |-> "r", id |-> i] :
        i \in {IdRgLower, IdRgUpper, IdRgMixed, IdRgOther, IdShort, IdEmpty}}
    \cup {[name |-> "r"]}

KeyCalls ==
    {[fn |-> f, args |-> [a |-> a, b |-> b], result |-> Pending] :
        f \in {"process_vm.rg_name", "main.resource_group",
               "get_network_resources.resource_group"},
        a \in KeyDescriptors, b \in KeyDescriptors}

InitKeys == pc = "call" /\ call \in KeyCalls /\ Idle

KeyOfMachine ==
    /\ pc = "call" /\ call.fn = "process_vm.rg_name"
    /\ call' = [call EXCEPT !.result = [a |-> VmRgName(call.args.a),
                                        b |-> VmRgName(call.args.b)]]
    /\ pc' = "returned"
    /\ UNCHANGED mainVars

KeyOfStorageAccount ==
    /\ pc = "call" /\ call.fn = "main.resource_group"
    /\ call' = [call EXCEPT !.result = [a |-> StorageRgName(call.args.a),
                                        b |-> StorageRgName(call.args.b)]]
    /\ pc' = "returned"
    /\ UNCHANGED mainVars

KeyOfNetworkItem ==
    /\ pc = "call" /\ call.fn = "get_network_resources.resource_group"
    /\ call' = [call EXCEPT !.result = [a |-> NetworkRgName(call.args.a),
                                        b |-> NetworkRgName(call.args.b)]]
    /\ pc' = "returned"
    /\ UNCHANGED mainVars

NextKeys == KeyOfMachine \/ KeyOfStorageAccount \/ KeyOfNetworkItem

SpecKeys == InitKeys /\ [][NextKeys]_vars

-----------------------------------------------------------------------------
(* main(): one run against one upstream *)

Init ==
    /\ pc = "start"
    /\ call = NoCall
    /\ exit_code = -1
    /\ upstream \in Upstreams
    /\ token_calls = 0
    /\ listing = [k \in Kinds |-> "pending"]
    /\ listed = [k \in Kinds |-> <<>>]
    /\ queue = <<>>
    /\ metrics_results = <<>>
    /\ vm_metrics = InitVmMetrics
    /\ network_metrics = InitNetworkMetrics
    /\ net_todo = <<>>

\* an exception nobody catches ends the process with a traceback
Crash == pc' = "crashed" /\ exit_code' = 1

\* token = get_token()
GetToken ==
    /\ pc = "start"
    /\ token_calls' = token_calls + 1
    /\ IF upstream.auth_ok THEN pc' = "list_storage" /\ UNCHANGED exit_code ELSE Crash
    /\ UNCHANGED <<upstream, listing, listed, queue, metrics_results, vm_metrics,
                   network_metrics, net_todo, call>>

\* a listing call of main(): on an exception the run ends, otherwise the loop
\* over the returned descriptors starts
List(kind, r, next_pc) ==
    IF r.raised
    THEN /\ Crash
         /\ listing' = [listing EXCEPT ![kind] = "failed"]
         /\ UNCHANGED <<listed, queue>>
    ELSE /\ pc' = next_pc
         /\ listing' = [listing EXCEPT ![kind] = "ok"]
         /\ listed' = [listed EXCEPT ![kind] = r.value]
         /\ queue' = FirstPage(upstream[kind])
         /\ UNCHANGED exit_code

\* storage_accounts = get_storage_accounts(subscription_id), which fetches a
\* token of its own
ListStorageAccounts ==
    /\ pc = "list_storage"
    /\ token_calls' = token_calls + 1
    /\ \E r \in {get_storage_accounts(ListingResponse(upstream.storage))} :
          List("storage", r, "storage_loop")
    /\ UNCHANGED <<upstream, metrics_results, vm_metrics, network_metrics, net_todo, call>>

\* one iteration of the loop over storage_accounts
CollectStorageAccount ==
    /\ pc = "storage_loop" /\ queue # <<>>
    /\ \E rec \in {StorageRecord(Head(queue).desc, Head(queue).cap, Head(queue).met)} :
          IF rec.raised
          THEN Crash /\ UNCHANGED <<queue, metrics_results>>
          ELSE /\ metrics_results' = Append(metrics_results, rec.value)
               /\ queue' = Tail(queue)
               /\ UNCHANGED <<pc, exit_code>>
    /\ UNCHANGED <<upstream, token_calls, listing, listed, vm_metrics,
                   network_metrics, net_todo, call>>

\* get_vm_metrics: compute_vms = get_vms(subscription_id, token)
ListVms ==
    /\ pc = "storage_loop" /\ queue = <<>>
    /\ \E r \in {get_vms(ListingResponse(upstream.vms))} : List("vms", r, "vm_loop")
    /\ UNCHANGED <<upstream, token_calls, metrics_results, vm_metrics,
                   network_metrics, net_todo, call>>

\* one iteration of a loop of get_vm_metrics
ProcessNext(vm_type) ==
    /\ queue # <<>>
    /\ \E r \in {process_vm(vm_metrics, Head(queue).desc, vm_type,
                              Head(queue).pw, Head(queue).ext, Head(queue).dcr)} :
          IF r.raised
          THEN Crash /\ UNCHANGED <<queue, vm_metrics>>
          ELSE /\ vm_metrics' = r.value
               /\ queue' = Tail(queue)
               /\ UNCHANGED <<pc, exit_code>>
    /\ UNCHANGED <<upstream, token_calls, listing, listed, metrics_results,
                   network_metrics, net_todo, call>>

ProcessVm == pc = "vm_loop" /\ ProcessNext("Compute")

\* get_vm_metrics: arc_machines = get_arc_machines(subscription_id, token)
ListArcMachines ==
    /\ pc = "vm_loop" /\ queue = <<>>
    /\ \E r \in {get_arc_machines(ListingResponse(upstream.arc))} :
          List("arc", r, "arc_loop")
    /\ UNCHANGED <<upstream, token_calls, metrics_results, vm_metrics,
                   network_metrics, net_todo, call>>

ProcessArc == pc = "arc_loop" /\ ProcessNext("Arc")

\* get_network_resources up to its loop
StartNetwork ==
    /\ pc = "arc_loop" /\ queue = <<>>
    /\ pc' = "network"
    /\ network_metrics' = InitNetworkMetrics
    /\ net_todo' = SubSeq(NetworkTypes, 1, MaxNetTypes)
    /\ UNCHANGED <<exit_code, upstream, token_calls, listing, listed, queue,
                   metrics_results, vm_metrics, call>>

\* one iteration of the loop of get_network_resources over the resource types
CollectNetworkType ==
    /\ pc = "network" /\ net_todo # <<>>
    /\ LET t == Head(net_todo)
           r == ListingResponse(upstream.net[t])
       IN  /\ network_metrics' =
                 [network_metrics EXCEPT
                     ![t] = NetworkEntry(@, r, FirstPage(upstream.net[t]))]
           /\ listing' = [listing EXCEPT ![t] = IF ListingValue(r).raised
                                                THEN "failed" ELSE "ok"]
           /\ listed' = [listed EXCEPT ![t] = IF ListingValue(r).raised
                                              THEN <<>> ELSE r.body.value]
    /\ net_todo' = Tail(net_todo)
    /\ UNCHANGED <<pc, exit_code, upstream, token_calls, queue, metrics_results,
                   vm_metrics, call>>

\* display_tables(...); export_to_csv(...); the process ends normally
Report ==
    /\ pc = "network" /\ net_todo = <<>>
    /\ pc' = "done"
    /\ exit_code' = 0
    /\ UNCHANGED <<upstream, token_calls, listing, listed, queue, metrics_results,
                   vm_metrics, network_metrics, net_todo, call>>

Next ==
    \/ GetToken
    \/ ListStorageAccounts
    \/ CollectStorageAccount
    \/ ListVms
    \/ ProcessVm
    \/ ListArcMachines
    \/ ProcessArc
    \/ StartNetwork
    \/ CollectNetworkType
    \/ Report

Spec == Init /\ [][Next]_vars

-----------------------------------------------------------------------------
(* Properties *)

Returned(fn) == pc = "returned" /\ call.fn = fn

\* the answer is a success: no exception, a success status, a JSON body
Succeeded(r) == ~r.exc /\ RespOk(r) /\ r.json_ok

\* the monitoring check found a provisioned Azure Monitor agent
AgentFound(ext) == Succeeded(ext) /\ ext.status = 200 /\ AgentInstalled(ext.body)

Samples == call.result.value.samples

\* the call returned a metrics dict
ReturnedMetrics ==
    /\ Returned("get_storage_account_metrics")
    /\ ~call.result.raised
    /\ ~call.result.value.is_none

\* index of the entry of `value` that decides the sample of metric `name`:
\* the last entry of that name that carries a series with data
Deciding(value, name) ==
    {i \in 1..Len(value) :
        /\ value[i].name = name
        /\ HasData(value[i].timeseries)
        /\ \A j \in (i + 1)..Len(value) :
              ~(value[j].name = name /\ HasData(value[j].timeseries))}

SeriesOf(entry) == entry.timeseries[1].data

RECURSIVE SumUpTo(_, _)
SumUpTo(f, n) == IF n = 0 THEN 0 ELSE f[n] + SumUpTo(f, n - 1)

\* sum of the non-null values of field `total` of a series
NonNullTotalSum(series) ==
    SumUpTo([i \in 1..Len(series) |->
                IF series[i].total # <<>> THEN series[i].total[1] ELSE 0], Len(series))
\* sum and number of the non-null values of field `average` of a series
NonNullAverageSum(series) ==
    SumUpTo([i \in 1..Len(series) |->
                IF series[i].average # <<>> THEN series[i].average[1] ELSE 0], Len(series))
NonNullAverageCount(series) ==
    Cardinality({i \in 1..Len(series) : series[i].average # <<>>})

\* C8: for each sum-reduced metric (Transactions, Ingress, Egress) a
\* successful metrics call returns with a series, the sample stored under the
\* metric's catalog name is the sum of the non-null 'total' data points of
\* that series; a series of null points only yields 0.
C8_SumOfNonNullTotals ==
    (ReturnedMetrics /\ Succeeded(call.args.met)) =>
        \A name \in SumNames : \A i \in Deciding(call.args.met.body, name) :
            /\ name \in DOMAIN Samples
            /\ Samples[name] = NonNullTotalSum(SeriesOf(call.args.met.body[i]))

\* a Transactions series with a null point and the point 3 reduced to 3
C8_Witness ==
    /\ ReturnedMetrics /\ Succeeded(call.args.met)
    /\ \E i \in Deciding(call.args.met.body, NameTransactions) :
          LET series == SeriesOf(call.args.met.body[i])
          IN  /\ Len(series) = 2
              /\ \E k \in 1..2 : series[k].total = <<>>
              /\ \E k \in 1..2 : series[k].total = <<3>>
    /\ Samples[K_Transactions] = 3

\* the value v is the mean of a series: sum / count when some point is
\* non-null, and 0 otherwise
IsMeanOf(v, series) ==
    LET n == NonNullAverageCount(series)
    IN  /\ v[2] > 0
        /\ IF n > 0 THEN v[1] * n = NonNullAverageSum(series) * v[2] ELSE v[1] = 0

\* C9: for each average-reduced metric (UsedCapacity, SuccessE2ELatency,
\* SuccessServerLatency, Availability) a successful metrics call returns with
\* a series, the sample is the arithmetic mean of the non-null 'average' data
\* points; with no non-null data point (all null, or no point at all) the
\* metric is present with value 0.
C9_MeanOfNonNullAverages ==
    /\ (ReturnedMetrics /\ Succeeded(call.args.met)) =>
          \A name \in AverageNames : \A i \in Deciding(call.args.met.body, name) :
              /\ name \in DOMAIN Samples
              /\ IsMeanOf(Samples[name], SeriesOf(call.args.met.body[i]))
    /\ (ReturnedMetrics /\ Succeeded(call.args.cap)) =>
          \A i \in Deciding(call.args.cap.body, NameUsedCapacity) :
              /\ NameUsedCapacity \in DOMAIN Samples
              /\ IsMeanOf(Samples[NameUsedCapacity], SeriesOf(call.args.cap.body[i]))

\* an Availability series with the points 0 and 1 reduced to 1/2
C9_Witness ==
    /\ ReturnedMetrics /\ Succeeded(call.args.met)
    /\ \E i \in Deciding(call.args.met.body, NameAvailability) :
          LET series == SeriesOf(call.args.met.body[i])
          IN  /\ Len(series) = 2
              /\ \E k \in 1..2 : series[k].average = <<0>>
              /\ \E k \in 1..2 : series[k].average = <<1>>
    /\ Samples[K_Availability] = <<1, 2>>

\* C6: when one of the two metric calls fails (non-success response,
\* transport error or timeout), get_storage_account_metrics still returns:
\* the failed call contributes no samples and the samples of the other call
\* are returned.
C6_EitherCallMayFail ==
    (Returned("get_storage_account_metrics")
        /\ Truthy(GetId(call.args.storage_account))
        /\ (Failed(call.args.cap) \/ Succeeded(call.args.cap))
        /\ (Failed(call.args.met) \/ Succeeded(call.args.met))
        /\ (Failed(call.args.cap) \/ Failed(call.args.met))) =>
        /\ ~call.result.raised
        /\ (Failed(call.args.cap) /\ Succeeded(call.args.met)) =>
              Samples = MetricLoop(EmptyDict, call.args.met.body)
        /\ (Failed(call.args.met) /\ Succeeded(call.args.cap)) =>
              Samples = CapacityLoop(EmptyDict, call.args.cap.body)

-----------------------------------------------------------------------------
(* Properties of the machine aggregate *)

\* all machine records, group after group
RECURSIVE AllMachines(_)
AllMachines(resource_groups) ==
    IF resource_groups = <<>> THEN <<>>
    ELSE Head(resource_groups).machines \o AllMachines(Tail(resource_groups))

\* number of records whose monitored flag is true, and whose flag is false
MonitoredCount(records) ==
    Cardinality({i \in 1..Len(records) : records[i].monitored})
UnmonitoredCount(records) ==
    Cardinality({i \in 1..Len(records) : ~records[i].monitored})

\* display_tables: "Not Monitored" is total_machines - total_monitored
NotMonitored(m) == m.total_machines - m.total_monitored

\* the machines of group rg_name, or none
MachinesOf(resource_groups, rg_name) ==
    IF HasGroup(resource_groups, rg_name)
    THEN resource_groups[CHOOSE i \in 1..Len(resource_groups) :
                             resource_groups[i].rg = rg_name].machines
    ELSE <<>>

\* a process_vm call has been made
Processed == call.fn = "process_vm" /\ call.seq > 0

\* the power-state lookup of the last call failed: exception or non-200
PowerLookupFailed == call.args.pw.exc \/ call.args.pw.status # 200

\* C2: when the power-state lookup of a machine fails (non-200, transport
\* exception or timeout), process_vm still appends the machine's record to
\* its resource group with power_state "unknown", total_machines counts it,
\* and the sequence of calls goes on.
C2_FailedLookupKeepsRecord ==
    (Processed /\ ~VmRgName(call.args.vm).raised /\ PowerLookupFailed) =>
        LET machines == MachinesOf(vm_metrics.resource_groups,
                                   VmRgName(call.args.vm).value)
        IN  /\ ~call.result.raised
            /\ pc \in {"compute", "arc"}
            /\ machines # <<>>
            /\ machines[Len(machines)].power_state = "unknown"
            /\ machines[Len(machines)].type = call.args.vm_type
            /\ vm_metrics.total_machines = call.seq
            /\ Len(AllMachines(vm_metrics.resource_groups)) = call.seq

\* three machines of group rg, the lookup of the second one failed: three
\* records in rg, the second with power_state "unknown", total_machines 3
C2_Witness ==
    /\ Processed /\ call.seq = 3
    /\ Len(vm_metrics.resource_groups) = 1
    /\ LET machines == MachinesOf(vm_metrics.resource_groups, <<"r", "g">>)
       IN  /\ Len(machines) = 3
           /\ machines[1].power_state = "running"
           /\ machines[2].power_state = "unknown"
           /\ machines[3].power_state = "running"
    /\ vm_metrics.total_machines = 3

\* C5: total_monitored is the number of machine records whose monitored flag
\* is true, total_machines the number of machine records, monitored plus
\* not-monitored is the total, globally and in every resource group.
C5_MonitoredCounts ==
    LET all == AllMachines(vm_metrics.resource_groups)
    IN  /\ vm_metrics.total_monitored = MonitoredCount(all)
        /\ vm_metrics.total_machines = Len(all)
        /\ NotMonitored(vm_metrics) = UnmonitoredCount(all)
        /\ 0 <= vm_metrics.total_monitored
        /\ vm_metrics.total_monitored <= vm_metrics.total_machines
        /\ \A i \in 1..Len(vm_metrics.resource_groups) :
              LET machines == vm_metrics.resource_groups[i].machines
              IN  MonitoredCount(machines) + UnmonitoredCount(machines) = Len(machines)

\* two groups, three machines, one of them monitored
C5_Witness ==
    /\ Processed
    /\ Len(vm_metrics.resource_groups) = 2
    /\ vm_metrics.total_machines = 3
    /\ vm_metrics.total_monitored = 1
    /\ NotMonitored(vm_metrics) = 2

\* the identifier of a descriptor is missing or malformed: absent, empty, or
\* with too few segments to hold a resource group
Malformed(descriptor) ==
    \/ "id" \notin DOMAIN descriptor
    \/ descriptor.id = <<>>
    \/ Len(Split(descriptor.id)) <= RgIndex

\* C4: a machine whose identifier is missing or malformed is put in the
\* group "unknown" and counted; it is not dropped and does not end the
\* processing.
C4_MalformedIdGoesToUnknown ==
    (Processed /\ Malformed(call.args.vm)) =>
        LET machines == MachinesOf(vm_metrics.resource_groups, S_unknown_rg)
        IN  /\ ~call.result.raised
            /\ pc # "raised"
            /\ machines # <<>>
            /\ vm_metrics.total_machines = call.seq

-----------------------------------------------------------------------------
(* Properties of the run and of the key extraction *)

\* C1: when the listing call of one resource kind fails, the run does not
\* end abnormally: that kind's listing stays empty and the run goes on to
\* exit code 0.
C1_ListingFailureIsLocal ==
    \A k \in Kinds :
        listing[k] = "failed" =>
            /\ pc # "crashed"
            /\ exit_code # 1
            /\ listed[k] = <<>>

\* C10: the sequence an enumerator returns holds every resource of the
\* kind's upstream inventory, also when the listing comes in several pages.
C10_FullInventoryListed ==
    /\ \A k \in {"storage", "vms", "arc"} :
          listing[k] = "ok" => listed[k] = DescriptorsOf(upstream[k].inventory)
    /\ \A t \in ModelledTypes :
          listing[t] = "ok" => listed[t] = DescriptorsOf(upstream.net[t].inventory)

\* two identifiers that differ at most in the letter case of the
\* resource-group segment
SameUpToRgCase(x, y) ==
    LET px == Split(x)
        py == Split(y)
    IN  /\ Len(px) = Len(py)
        /\ Len(px) > RgIndex
        /\ \A i \in 1..Len(px) : i # RgIndex + 1 => px[i] = py[i]
        /\ Lower(px[RgIndex + 1]) = Lower(py[RgIndex + 1])

\* C7: for every resource kind, two identifiers that differ only in the
\* letter case of the resource-group segment get the same resource-group key.
C7_KeyIsCaseNormalized ==
    (/\ pc = "returned"
     /\ call.fn \in {"process_vm.rg_name", "main.resource_group",
                     "get_network_resources.resource_group"}
     /\ "id" \in DOMAIN call.args.a
     /\ "id" \in DOMAIN call.args.b
     /\ SameUpToRgCase(call.args.a.id, call.args.b.id)) =>
        /\ ~call.result.a.raised
        /\ ~call.result.b.raised
        /\ call.result.a.value = call.result.b.value

\* C11: within one run of main, get_token is invoked exactly once: once the
\* token has been fetched, no later step of the run fetches another one, so
\* every upstream call carries that token.
C11_TokenFetchedOnce == pc # "start" => token_calls = 1

\* the listing answered 200 with a JSON body
Listed(r) == ~r.exc /\ r.status = 200 /\ r.json_ok
\* the request raised, or its 200 answer could not be parsed
Threw(r) == r.exc \/ (r.status = 200 /\ ~r.json_ok)
\* an extension whose lower-cased name contains both "azuremonitor" and
\* "agent" and whose provisioningState equals "Succeeded"
ProvisionedAgentIn(extensions) ==
    \E i \in 1..Len(extensions) :
        /\ Contains(Lower(extensions[i].name), S_azuremonitor)
        /\ Contains(Lower(extensions[i].name), S_agent)
        /\ extensions[i].provisioningState = "Succeeded"
\* step (1) of the monitoring check says Enabled
StepOne(ext) == Listed(ext) /\ ProvisionedAgentIn(ext.body)
\* step (2) is reached: step (1) neither said Enabled nor raised
StepTwoConsulted(ext) == ~StepOne(ext) /\ ~Threw(ext)
\* step (2) of the monitoring check says Enabled
StepTwo(ext, dcr) == StepTwoConsulted(ext) /\ Listed(dcr) /\ dcr.body # <<>>
\* an exception occurred in a step that was made
ExceptionOccurred(ext, dcr) == Threw(ext) \/ (StepTwoConsulted(ext) /\ Threw(dcr))

\* C12: get_vm_insights_status returns "Enabled" if and only if (1) the
\* extensions listing succeeds and holds an extension whose lower-cased name
\* contains both "azuremonitor" and "agent" and whose provisioningState is
\* "Succeeded", or (2) the association listing, consulted only when step (1)
\* did not return Enabled, succeeds and is non-empty; it returns "Unknown"
\* exactly when an exception occurred, and "Not enabled" otherwise.
C12_EnabledIffAgentOrAssociation ==
    Returned("get_vm_insights_status") =>
        LET ext == call.args.ext
            dcr == call.args.dcr
        IN  /\ ~call.result.raised
            /\ call.result.value = "Enabled" <=> (StepOne(ext) \/ StepTwo(ext, dcr))
            /\ call.result.value = "Unknown" <=> ExceptionOccurred(ext, dcr)
            /\ call.result.value = "Not enabled" <=>
                  ~(StepOne(ext) \/ StepTwo(ext, dcr) \/ ExceptionOccurred(ext, dcr))

\* the extensions listing holds an Azure Monitor agent that is not
\* provisioned, the association listing holds an association, and the result
\* is Enabled by step (2)
C12_Witness ==
    /\ Returned("get_vm_insights_status")
    /\ Listed(call.args.ext)
    /\ \E i \in 1..Len(call.args.ext.body) :
          /\ call.args.ext.body[i].name = ExtAMAWindows
          /\ call.args.ext.body[i].provisioningState = "Failed"
    /\ ~StepOne(call.args.ext)
    /\ StepTwo(call.args.ext, call.args.dcr)
    /\ call.result = Ret("Enabled")

\* C13: for every network resource type, once get_network_resources has
\* returned, the reported count equals the number of entries of that type's
\* items list, whatever the upstream answered (items with missing or malformed
\* identifiers included), so every counted resource has a record.
C13_CountMatchesItems ==
    pc = "done" =>
        \A t \in NetworkTypeSet :
            network_metrics[t].count = Len(network_metrics[t].items)

====
